---- MODULE Spec2Model ----
(***************************************************************************)
(* A model of the Tidepool Go client (package tidepool): client            *)
(* construction from functional options, the public operations of the      *)
(* client, the request helper doRequest, the HTTP error classifier         *)
(* handleError and the response decoders.                                  *)
(*                                                                         *)
(* Conventions.                                                            *)
(*  - A Go string that the code only compares or copies (a namespace, a    *)
(*    URL, a mode) is a TLA+ string.  A Go string that the code edits      *)
(*    (strings.TrimSpace on the error message) is a Text: a sequence of    *)
(*    chunks, each chunk being one white-space character or one word       *)
(*    without white space.                                                 *)
(*  - A Go slice is a record [nil, elems]; len(s) is Len(s.elems).         *)
(*  - A float32 is a record [f, v] with f in {"num", "nan", "inf"}.        *)
(*  - A JSON document is a record with a field t naming its type.          *)
(*  - A Go error is a record [what, kinds, detail]: kinds is the set of    *)
(*    sentinel errors errors.Is finds in its chain, detail the set (empty  *)
(*    or a singleton) of *TidepoolError values errors.As finds.            *)
(***************************************************************************)
EXTENDS Integers, Sequences, FiniteSets, TLC

VARIABLES clients, httpClients, calls

vars == <<clients, httpClients, calls>>

(***************************************************************************)
(* Bounds of the model.                                                    *)
(***************************************************************************)
\* longest option list handed to New
MaxOpts == 1
\* longest vector of a document or a query
MaxVecLen == 1
\* longest document list and ID list
MaxItems == 1
\* longest list of results or namespaces in a response body
MaxResults == 2

(***************************************************************************)
(* Program constants.                                                      *)
(***************************************************************************)
defaultQueryURL == "http://localhost:8080"
defaultIngestURL == "http://localhost:8081"
\* seconds
defaultTimeout == 30
defaultNamespace == "default"

StatusBadRequest == 400
StatusNotFound == 404
StatusRequestEntityTooLarge == 413
StatusServiceUnavailable == 503

ErrValidation == "validation error"
ErrNotFound == "not found"
ErrServiceUnavailable == "service unavailable"

\* context.Canceled, the error of a context that was canceled
Canceled == "context canceled"

(***************************************************************************)
(* Texts.                                                                  *)
(***************************************************************************)
IsSpace(ch) == ch = " "

RECURSIVE TrimLeft(_)
TrimLeft(t) ==
    IF t # <<>> /\ IsSpace(Head(t)) THEN TrimLeft(Tail(t)) ELSE t

RECURSIVE TrimRight(_)
TrimRight(t) ==
    IF t # <<>> /\ IsSpace(t[Len(t)]) THEN TrimRight(SubSeq(t, 1, Len(t) - 1)) ELSE t

\* strings.TrimSpace
TrimSpace(t) == TrimRight(TrimLeft(t))

\* http.StatusText: the reason phrase of the codes the standard library
\* knows, the empty string for every other code
StatusText(code) ==
    CASE code = 100 -> <<"Continue">>
      [] code = 101 -> <<"Switching", " ", "Protocols">>
      [] code = 200 -> <<"OK">>
      [] code = 201 -> <<"Created">>
      [] code = 202 -> <<"Accepted">>
      [] code = 204 -> <<"No", " ", "Content">>
      [] code = 300 -> <<"Multiple", " ", "Choices">>
      [] code = 301 -> <<"Moved", " ", "Permanently">>
      [] code = 302 -> <<"Found">>
      [] code = 304 -> <<"Not", " ", "Modified">>
      [] code = 400 -> <<"Bad", " ", "Request">>
      [] code = 401 -> <<"Unauthorized">>
      [] code = 403 -> <<"Forbidden">>
      [] code = 404 -> <<"Not", " ", "Found">>
      [] code = 405 -> <<"Method", " ", "Not", " ", "Allowed">>
      [] code = 408 -> <<"Request", " ", "Timeout">>
      [] code = 409 -> <<"Conflict">>
      [] code = 413 -> <<"Request", " ", "Entity", " ", "Too", " ", "Large">>
      [] code = 422 -> <<"Unprocessable", " ", "Entity">>
      [] code = 429 -> <<"Too", " ", "Many", " ", "Requests">>
      [] code = 500 -> <<"Internal", " ", "Server", " ", "Error">>
      [] code = 501 -> <<"Not", " ", "Implemented">>
      [] code = 502 -> <<"Bad", " ", "Gateway">>
      [] code = 503 -> <<"Service", " ", "Unavailable">>
      [] code = 504 -> <<"Gateway", " ", "Timeout">>
      [] OTHER -> <<>>

(***************************************************************************)
(* JSON documents.                                                         *)
(***************************************************************************)
\* bytes that are not a JSON document (also the empty body)
JInvalid == [t |-> "invalid"]
JNull == [t |-> "null"]
JStr(s) == [t |-> "string", s |-> s]
JNum(n) == [t |-> "number", n |-> n]
JArr(es) == [t |-> "array", elems |-> es]
JObj(fs) == [t |-> "object", fields |-> fs]

HasField(j, k) == j.t = "object" /\ k \in DOMAIN j.fields

(***************************************************************************)
(* Errors.                                                                 *)
(***************************************************************************)
NilErr == [what |-> "nil", kinds |-> {}, detail |-> {}]

\* fmt.Errorf("%w: ...", sentinel)
WrapSentinel(sentinel, what) == [what |-> what, kinds |-> {sentinel}, detail |-> {}]

\* fmt.Errorf("...: %w", err) around an error of another package
WrapForeign(what) == [what |-> what, kinds |-> {}, detail |-> {}]

\* errors.Join(sentinel, tideErr)
Join(sentinel, tideErr) == [what |-> "http", kinds |-> {sentinel}, detail |-> {tideErr}]

\* a bare *TidepoolError
Bare(tideErr) == [what |-> "http", kinds |-> {}, detail |-> {tideErr}]

IsValidationError(err) == ErrValidation \in err.kinds
IsNotFoundError(err) == ErrNotFound \in err.kinds
IsServiceUnavailableError(err) == ErrServiceUnavailable \in err.kinds

\* errors.As(err, &tideErr): the *TidepoolError values in the chain
AsTidepoolError(err) == err.detail

(***************************************************************************)
(* handleError: the HTTP error classifier.                                 *)
(***************************************************************************)
\* json.Unmarshal(body, &errResp) with errResp = struct{ Error string }:
\* the field is set only by a JSON object whose "error" member is a string
errRespError(body) ==
    IF HasField(body, "error") /\ body.fields["error"].t = "string"
    THEN body.fields["error"].s
    ELSE <<>>

handleErrorMessage(statusCode, body) ==
    LET msg == TrimSpace(errRespError(body))
    IN IF msg = <<>> THEN StatusText(statusCode) ELSE msg

TidepoolError(statusCode, body) ==
    [Message |-> handleErrorMessage(statusCode, body),
     StatusCode |-> statusCode,
     Response |-> body]

\* a classifier that forgets the 413 case
handleErrorWithout413(statusCode, body) ==
    LET tideErr == TidepoolError(statusCode, body)
    IN CASE statusCode = StatusBadRequest -> Join(ErrValidation, tideErr)
         [] statusCode = StatusNotFound -> Join(ErrNotFound, tideErr)
         [] statusCode = StatusServiceUnavailable -> Join(ErrServiceUnavailable, tideErr)
         [] OTHER -> Bare(tideErr)

\* a classifier that formats the message into the sentinel,
\* fmt.Errorf("%w: %s", sentinel, msg), and so loses the detail
handleErrorFormatted(statusCode, body) ==
    LET tideErr == TidepoolError(statusCode, body)
    IN CASE statusCode \in {StatusBadRequest, StatusRequestEntityTooLarge} ->
                WrapSentinel(ErrValidation, "http")
         [] statusCode = StatusNotFound -> WrapSentinel(ErrNotFound, "http")
         [] statusCode = StatusServiceUnavailable ->
                WrapSentinel(ErrServiceUnavailable, "http")
         [] OTHER -> Bare(tideErr)

\* a classifier that joins two sentinels for 413
handleErrorTwoKinds(statusCode, body) ==
    LET tideErr == TidepoolError(statusCode, body)
    IN CASE statusCode = StatusBadRequest -> Join(ErrValidation, tideErr)
         [] statusCode = StatusRequestEntityTooLarge ->
                [Join(ErrValidation, tideErr) EXCEPT
                    !.kinds = {ErrValidation, ErrServiceUnavailable}]
         [] statusCode = StatusNotFound -> Join(ErrNotFound, tideErr)
         [] statusCode = StatusServiceUnavailable -> Join(ErrServiceUnavailable, tideErr)
         [] OTHER -> Bare(tideErr)

handleError(statusCode, body) ==
    LET tideErr == TidepoolError(statusCode, body)
    IN CASE statusCode \in {StatusBadRequest, StatusRequestEntityTooLarge} ->
                Join(ErrValidation, tideErr)
         [] statusCode = StatusNotFound -> Join(ErrNotFound, tideErr)
         [] statusCode = StatusServiceUnavailable -> Join(ErrServiceUnavailable, tideErr)
         [] OTHER -> Bare(tideErr)

(***************************************************************************)
(* Configuration and functional options.                                   *)
(***************************************************************************)
\* *http.Client values: the pointer a caller injects, the client New makes
\* for the Client c itself, and nil
NilHTTP == [ptr |-> "nil", of |-> 0]
CustomHTTP == [ptr |-> "custom", of |-> 0]
OwnHTTP(c) == [ptr |-> "own", of |-> c]

WithQueryURL(url) == [opt |-> "WithQueryURL", url |-> url]
WithIngestURL(url) == [opt |-> "WithIngestURL", url |-> url]
WithTimeout(d) == [opt |-> "WithTimeout", d |-> d]
WithNamespace(ns) == [opt |-> "WithNamespace", ns |-> ns]
WithDefaultNamespace(ns) == [opt |-> "WithDefaultNamespace", ns |-> ns]
WithHTTPClient(client) == [opt |-> "WithHTTPClient", client |-> client]
\* a nil Option, which New skips
NilOption == [opt |-> "nil"]

\* opt(&cfg)
ApplyOption(cfg, o) ==
    CASE o.opt = "WithQueryURL" -> [cfg EXCEPT !.QueryURL = o.url]
      [] o.opt = "WithIngestURL" -> [cfg EXCEPT !.IngestURL = o.url]
      [] o.opt = "WithTimeout" -> [cfg EXCEPT !.Timeout = o.d]
      [] o.opt = "WithNamespace" ->
            [cfg EXCEPT !.Namespace = o.ns, !.DefaultNamespace = o.ns]
      [] o.opt = "WithDefaultNamespace" -> [cfg EXCEPT !.DefaultNamespace = o.ns]
      [] o.opt = "WithHTTPClient" -> [cfg EXCEPT !.HTTPClient = o.client]
      [] OTHER -> cfg

\* the Config literal New starts from: DefaultNamespace and HTTPClient are
\* left at their zero values
InitialConfig ==
    [QueryURL |-> defaultQueryURL,
     IngestURL |-> defaultIngestURL,
     Timeout |-> defaultTimeout,
     DefaultNamespace |-> "",
     Namespace |-> defaultNamespace,
     HTTPClient |-> NilHTTP]

RECURSIVE ApplyOptions(_, _)
ApplyOptions(cfg, opts) ==
    IF opts = <<>> THEN cfg
    ELSE ApplyOptions(ApplyOption(cfg, Head(opts)), Tail(opts))

\* the values the options are given
URLValues == {"", "http://tidepool.test"}
NamespaceValues == {"", "products"}
\* WithTimeout(0) leaves an injected client's timeout alone
TimeoutValues == {0, 12}
\* the timeout an injected http.Client is created with
InjectedTimeout == 5

Options ==
    {WithQueryURL(u) : u \in URLValues}
    \cup {WithIngestURL(u) : u \in URLValues}
    \cup {WithTimeout(d) : d \in TimeoutValues}
    \cup {WithNamespace(ns) : ns \in NamespaceValues}
    \cup {WithDefaultNamespace(ns) : ns \in NamespaceValues}
    \cup {WithHTTPClient(CustomHTTP), NilOption}

OptionLists == UNION {[1..n -> Options] : n \in 0..MaxOpts}

ClientIds == {1}
\* two clients, for the callers that build more than one
ClientPair == {1, 2}
NoClient == [config |-> InitialConfig, http |-> NilHTTP, built |-> FALSE]

\* New(opts...): builds the configuration, then makes an http.Client or
\* sets the timeout of the injected one
New(c, opts) ==
    /\ ~clients[c].built
    /\ LET cfg == ApplyOptions(InitialConfig, opts)
           httpClient == IF cfg.HTTPClient = NilHTTP THEN OwnHTTP(c) ELSE cfg.HTTPClient
       IN /\ clients' = [clients EXCEPT ![c] =
                            [config |-> cfg, http |-> httpClient, built |-> TRUE]]
          /\ httpClients' =
                IF cfg.HTTPClient = NilHTTP
                THEN [httpClients EXCEPT ![httpClient] = [made |-> TRUE, Timeout |-> cfg.Timeout]]
                ELSE IF cfg.Timeout > 0
                     THEN [httpClients EXCEPT ![httpClient].Timeout = cfg.Timeout]
                     ELSE httpClients

(***************************************************************************)
(* Values handed to the operations.                                        *)
(***************************************************************************)
Slice(elems) == [nil |-> FALSE, elems |-> elems]
NilSlice == [nil |-> TRUE, elems |-> <<>>]
len(s) == Len(s.elems)

Num(v) == [f |-> "num", v |-> v]
NaN == [f |-> "nan", v |-> 0]
PosInf == [f |-> "inf", v |-> 1]
IsNaN(x) == x.f = "nan"
IsInf(x) == x.f = "inf"

Floats == {Num(1), NaN, PosInf}

SeqsUpTo(S, n) == UNION {[1..k -> S] : k \in 0..n}

\* Vector values: nil, empty and every vector of at most MaxVecLen floats
Vectors == {NilSlice} \cup {Slice(es) : es \in SeqsUpTo(Floats, MaxVecLen)}

Document(id, vector) == [ID |-> id, Vector |-> vector]
Documents == {Document("doc-1", Slice(<<Num(1)>>)), Document("doc-2", Slice(<<NaN>>))}
DocumentLists == {NilSlice} \cup {Slice(ds) : ds \in SeqsUpTo(Documents, MaxItems)}

IDLists == {NilSlice} \cup {Slice(ids) : ids \in SeqsUpTo({"doc-1"}, MaxItems)}

\* per-call namespaces
CallNamespaces == {"", "products", "tenant_a"}

DistanceCosine == "cosine_distance"

QueryModeVector == "vector"
QueryModeText == "text"
QueryModeHybrid == "hybrid"
QueryModes == {"", QueryModeVector, QueryModeText, QueryModeHybrid}

FusionBlend == "blend"
FusionRRF == "rrf"
FusionModes == {"", FusionBlend, FusionRRF}

\* *float32 and *int members of the options: nil, or a pointer to v
NilPointer == [set |-> FALSE, v |-> 0]
PointerTo(v) == [set |-> TRUE, v |-> v]

\* alpha values, in tenths: -0.3, 0.5 and 1.5
AlphaValues == {-3, 5, 15}

RRFKValues == {0, 10}

\* *UpsertOptions, *QueryOptions, *DeleteOptions: one record type, with the
\* fields an operation does not have at their zero values
ZeroOptions ==
    [nil |-> FALSE, Namespace |-> "", DistanceMetric |-> "", TopK |-> 0,
     EfSearch |-> 0, NProbe |-> 0, IncludeVectors |-> FALSE, Filters |-> {},
     Text |-> "", Mode |-> "", Alpha |-> NilPointer, Fusion |-> "",
     RRFK |-> NilPointer]
NilOptions == [ZeroOptions EXCEPT !.nil = TRUE]

NamespaceOptions == {NilOptions} \cup {[ZeroOptions EXCEPT !.Namespace = ns] : ns \in CallNamespaces}

UpsertOptionsSet ==
    NamespaceOptions \cup {[ZeroOptions EXCEPT !.DistanceMetric = DistanceCosine]}

DeleteOptionsSet == NamespaceOptions

QueryOptionsSet ==
    NamespaceOptions
    \cup {[ZeroOptions EXCEPT !.Mode = m, !.Text = t] : m \in QueryModes, t \in {"", "hello"}}
    \cup {[ZeroOptions EXCEPT !.TopK = 7, !.DistanceMetric = DistanceCosine,
                              !.Filters = {"tag"}]}
    \cup {[ZeroOptions EXCEPT !.TopK = -1]}
    \cup {[ZeroOptions EXCEPT !.Mode = "invalid"]}
    \cup {[ZeroOptions EXCEPT !.Fusion = f, !.Text = "hello"] : f \in {FusionRRF, "invalid"}}
    \cup {[ZeroOptions EXCEPT !.RRFK = PointerTo(n), !.Text = "hi"] : n \in RRFKValues}
    \cup {[ZeroOptions EXCEPT !.Alpha = PointerTo(a), !.Text = "hello"] : a \in AlphaValues}

ServiceNames == {"query", "Query", "ingest", "", "search"}

\* strings.ToLower on the service names
ToLower(s) == IF s = "Query" THEN "query" ELSE s

(***************************************************************************)
(* Helpers of the client.                                                  *)
(***************************************************************************)
NoURL == [base |-> "", path |-> <<>>]

\* a joinURL that leaves the empty base to url.JoinPath
joinURLUnchecked(base, parts) ==
    IF base = ""
    THEN [url |-> NoURL, err |-> WrapForeign("base URL is required")]
    ELSE [url |-> [base |-> base, path |-> parts], err |-> NilErr]

\* joinURL: url.JoinPath appends the parts to the base URL
joinURL(base, parts) ==
    IF base = ""
    THEN [url |-> NoURL, err |-> WrapSentinel(ErrValidation, "base URL is required")]
    ELSE [url |-> [base |-> base, path |-> parts], err |-> NilErr]

ingestVectorsEndpoint(cfg, namespace) ==
    IF namespace = ""
    THEN [url |-> NoURL, err |-> WrapSentinel(ErrValidation, "namespace is required")]
    ELSE joinURL(cfg.IngestURL, <<"v1", "vectors", namespace>>)

\* a variant that builds the query endpoint on the ingest base URL
queryVectorsEndpointOnIngest(cfg, namespace) ==
    IF namespace = ""
    THEN [url |-> NoURL, err |-> WrapSentinel(ErrValidation, "namespace is required")]
    ELSE joinURL(cfg.IngestURL, <<"v1", "vectors", namespace>>)

queryVectorsEndpoint(cfg, namespace) ==
    IF namespace = ""
    THEN [url |-> NoURL, err |-> WrapSentinel(ErrValidation, "namespace is required")]
    ELSE joinURL(cfg.QueryURL, <<"v1", "vectors", namespace>>)

serviceBaseURL(cfg, service) ==
    CASE ToLower(service) = "query" -> [base |-> cfg.QueryURL, err |-> NilErr]
      [] ToLower(service) = "ingest" -> [base |-> cfg.IngestURL, err |-> NilErr]
      [] OTHER -> [base |-> "", err |-> WrapSentinel(ErrValidation, "unknown service")]

\* a resolver that prefers the configured namespace to the caller's
namespaceOrDefaultConfigFirst(cfg, namespace) ==
    IF cfg.Namespace # "" THEN [ns |-> cfg.Namespace, err |-> NilErr]
    ELSE IF namespace # "" THEN [ns |-> namespace, err |-> NilErr]
    ELSE [ns |-> "", err |-> WrapSentinel(ErrValidation, "namespace is required")]

\* a resolver that guesses the built-in namespace when none is configured
namespaceOrDefaultGuessing(cfg, namespace) ==
    IF namespace # "" THEN [ns |-> namespace, err |-> NilErr]
    ELSE IF cfg.Namespace # "" THEN [ns |-> cfg.Namespace, err |-> NilErr]
    ELSE [ns |-> defaultNamespace, err |-> NilErr]

namespaceOrDefault(cfg, namespace) ==
    IF namespace # "" THEN [ns |-> namespace, err |-> NilErr]
    ELSE IF cfg.Namespace # "" THEN [ns |-> cfg.Namespace, err |-> NilErr]
    ELSE [ns |-> "", err |-> WrapSentinel(ErrValidation, "namespace is required")]

\* a variant that lets infinite values through
ValidateVectorNaNOnly(v, expectedDims) ==
    IF len(v) = 0 THEN WrapSentinel(ErrValidation, "vector cannot be empty")
    ELSE IF expectedDims > 0 /\ len(v) # expectedDims
         THEN WrapSentinel(ErrValidation, "dimension mismatch")
    ELSE IF \E i \in 1..len(v) : IsNaN(v.elems[i])
         THEN WrapSentinel(ErrValidation, "invalid value")
    ELSE NilErr

ValidateVector(v, expectedDims) ==
    IF len(v) = 0 THEN WrapSentinel(ErrValidation, "vector cannot be empty")
    ELSE IF expectedDims > 0 /\ len(v) # expectedDims
         THEN WrapSentinel(ErrValidation, "dimension mismatch")
    ELSE IF \E i \in 1..len(v) : IsNaN(v.elems[i]) \/ IsInf(v.elems[i])
         THEN WrapSentinel(ErrValidation, "invalid value")
    ELSE NilErr

(***************************************************************************)
(* Request payloads and the sending half of doRequest.                     *)
(***************************************************************************)
\* the marshalled members of a request struct: the members named in
\* present, each with its value
Payload(full, present) == [present |-> TRUE, value |-> [k \in present |-> full[k]]]
NoPayload == [present |-> FALSE, value |-> <<>>]

\* the anonymous request struct of Upsert
UpsertPayload(docs, opts) ==
    LET metric == IF ~opts.nil /\ opts.DistanceMetric # "" THEN opts.DistanceMetric ELSE ""
    IN Payload([vectors |-> docs, distance_metric |-> metric],
               {"vectors"} \cup (IF metric # "" THEN {"distance_metric"} ELSE {}))

\* the anonymous request struct of Query: "vector" has no omitempty, and
\* include_vectors is a pointer that is set whenever opts is not nil
QueryPayload(vector, opts) ==
    LET o == IF opts.nil THEN ZeroOptions ELSE opts
        TopK == IF o.TopK > 0 THEN o.TopK ELSE 0
        EfSearch == IF o.EfSearch > 0 THEN o.EfSearch ELSE 0
        NProbe == IF o.NProbe > 0 THEN o.NProbe ELSE 0
    IN Payload([vector |-> vector, top_k |-> TopK, ef_search |-> EfSearch,
                nprobe |-> NProbe, distance_metric |-> o.DistanceMetric,
                include_vectors |-> o.IncludeVectors, filters |-> o.Filters],
               {"vector"}
               \cup (IF TopK # 0 THEN {"top_k"} ELSE {})
               \cup (IF EfSearch # 0 THEN {"ef_search"} ELSE {})
               \cup (IF NProbe # 0 THEN {"nprobe"} ELSE {})
               \cup (IF o.DistanceMetric # "" THEN {"distance_metric"} ELSE {})
               \cup (IF ~opts.nil THEN {"include_vectors"} ELSE {})
               \cup (IF o.Filters # {} THEN {"filters"} ELSE {}))

\* the anonymous request struct of Delete
DeletePayload(ids) == Payload([ids |-> ids], {"ids"})

\* json.Marshal rejects a float that is NaN or infinite
Unsupported(v) == \E i \in 1..len(v) : IsNaN(v.elems[i]) \/ IsInf(v.elems[i])

MarshalFails(body) ==
    /\ body.present
    /\ \/ "vector" \in DOMAIN body.value /\ Unsupported(body.value["vector"])
       \/ /\ "vectors" \in DOMAIN body.value
          /\ \E i \in 1..len(body.value["vectors"]) :
                Unsupported(body.value["vectors"].elems[i].Vector)

ApplicationJSON == "application/json"

\* what an operation has done when it blocks in c.http.Do or returns
\* before: the requests handed to the transport and the error so far
Failed(err) == [sent |-> <<>>, err |-> err]

\* a variant that sets Content-Type on every request
doRequestSendAlwaysTyped(method, endpoint, body) ==
    IF MarshalFails(body) THEN Failed(WrapForeign("marshal request"))
    ELSE [sent |-> <<[method |-> method,
                      url |-> endpoint,
                      Accept |-> ApplicationJSON,
                      ContentType |-> ApplicationJSON,
                      body |-> body]>>,
          err |-> NilErr]

\* doRequest up to c.http.Do(req)
doRequestSend(method, endpoint, body) ==
    IF MarshalFails(body) THEN Failed(WrapForeign("marshal request"))
    ELSE [sent |-> <<[method |-> method,
                      url |-> endpoint,
                      Accept |-> ApplicationJSON,
                      ContentType |-> IF body.present THEN ApplicationJSON ELSE "",
                      body |-> body]>>,
          err |-> NilErr]

(***************************************************************************)
(* The operations up to the transport call.                                *)
(***************************************************************************)
desiredNamespace(opts) == IF opts.nil THEN "" ELSE opts.Namespace

HealthSend(cfg, service) ==
    LET b == serviceBaseURL(cfg, service)
        e == joinURL(b.base, <<"health">>)
    IN IF b.err # NilErr THEN Failed(b.err)
       ELSE IF e.err # NilErr THEN Failed(e.err)
       ELSE doRequestSend("GET", e.url, NoPayload)

\* an Upsert that checks the document list after it has sent the request
UpsertSendThenCheck(cfg, docs, opts) ==
    LET r == namespaceOrDefault(cfg, desiredNamespace(opts))
        e == ingestVectorsEndpoint(cfg, r.ns)
        p == doRequestSend("POST", e.url, UpsertPayload(docs, opts))
    IN IF r.err # NilErr THEN Failed(r.err)
       ELSE IF e.err # NilErr THEN Failed(e.err)
       ELSE IF len(docs) = 0
            THEN [sent |-> p.sent, err |-> WrapSentinel(ErrValidation, "no documents provided")]
       ELSE p

UpsertSend(cfg, docs, opts) ==
    LET r == namespaceOrDefault(cfg, desiredNamespace(opts))
        e == ingestVectorsEndpoint(cfg, r.ns)
    IN IF len(docs) = 0 THEN Failed(WrapSentinel(ErrValidation, "no documents provided"))
       ELSE IF r.err # NilErr THEN Failed(r.err)
       ELSE IF e.err # NilErr THEN Failed(e.err)
       ELSE doRequestSend("POST", e.url, UpsertPayload(docs, opts))

QuerySend(cfg, vector, opts) ==
    LET v == ValidateVector(vector, 0)
        r == namespaceOrDefault(cfg, desiredNamespace(opts))
        e == queryVectorsEndpoint(cfg, r.ns)
    IN IF v # NilErr THEN Failed(v)
       ELSE IF r.err # NilErr THEN Failed(r.err)
       ELSE IF e.err # NilErr THEN Failed(e.err)
       ELSE doRequestSend("POST", e.url, QueryPayload(vector, opts))

DeleteSend(cfg, ids, opts) ==
    LET r == namespaceOrDefault(cfg, desiredNamespace(opts))
        e == ingestVectorsEndpoint(cfg, r.ns)
    IN IF len(ids) = 0 THEN Failed(WrapSentinel(ErrValidation, "no ids provided"))
       ELSE IF r.err # NilErr THEN Failed(r.err)
       ELSE IF e.err # NilErr THEN Failed(e.err)
       ELSE doRequestSend("DELETE", e.url, DeletePayload(ids))

GetNamespaceSend(cfg, namespace) ==
    LET r == IF namespace = "" THEN namespaceOrDefault(cfg, namespace)
             ELSE [ns |-> namespace, err |-> NilErr]
        e == joinURL(cfg.QueryURL, <<"v1", "namespaces", r.ns>>)
    IN IF r.err # NilErr THEN Failed(r.err)
       ELSE IF e.err # NilErr THEN Failed(e.err)
       ELSE doRequestSend("GET", e.url, NoPayload)

ListNamespacesSend(cfg) ==
    LET e == joinURL(cfg.QueryURL, <<"v1", "namespaces">>)
    IN IF e.err # NilErr THEN Failed(e.err) ELSE doRequestSend("GET", e.url, NoPayload)

StatusSend(cfg) ==
    LET e == joinURL(cfg.IngestURL, <<"status">>)
    IN IF e.err # NilErr THEN Failed(e.err) ELSE doRequestSend("GET", e.url, NoPayload)

CompactSend(cfg) ==
    LET e == joinURL(cfg.IngestURL, <<"compact">>)
    IN IF e.err # NilErr THEN Failed(e.err) ELSE doRequestSend("POST", e.url, NoPayload)

(***************************************************************************)
(* Response decoding.                                                      *)
(***************************************************************************)
NoValue == [t |-> "none"]

\* encoding/json accepts null for a member of any type
TypeMatches(j, ty) == j.t = "null" \/ j.t = ty

\* json.Unmarshal(data, &v) for a struct v whose members are named in
\* schema: it fails on anything but an object or null and on a member of
\* the wrong type; a member that is absent or null keeps its zero value,
\* written JNull
DecodeStruct(j, schema) ==
    LET ok == /\ j.t \in {"object", "null"}
              /\ j.t = "object" =>
                    \A k \in DOMAIN schema \cap DOMAIN j.fields :
                        TypeMatches(j.fields[k], schema[k])
    IN [ok |-> ok,
        value |-> IF ok
                  THEN [k \in DOMAIN schema |->
                            IF HasField(j, k) THEN j.fields[k] ELSE JNull]
                  ELSE NoValue]

HealthResponseSchema == [service |-> "string", status |-> "string"]

NamespaceInfoSchema ==
    [namespace |-> "string", approx_count |-> "number", dimensions |-> "number",
     pending_compaction |-> "bool"]

IngestStatusSchema ==
    [last_run |-> "string", wal_files |-> "number", wal_entries |-> "number",
     segments |-> "number", total_vecs |-> "number", dimensions |-> "number"]

VectorResultSchema ==
    [id |-> "string", vector |-> "array", attributes |-> "object",
     score |-> "number", dist |-> "number", distance |-> "number"]

\* an UnmarshalJSON that lets the legacy dist member override the score
DecodeVectorResultDistFirst(j) ==
    LET d == DecodeStruct(j, VectorResultSchema)
        a == d.value
    IN [ok |-> d.ok,
        value |-> IF ~d.ok THEN NoValue
                  ELSE [ID |-> a.id, Vector |-> a.vector, Attributes |-> a.attributes,
                        Score |-> CASE a.dist.t = "number" -> a.dist.n
                                    [] a.score.t = "number" -> a.score.n
                                    [] a.distance.t = "number" -> a.distance.n
                                    [] OTHER -> 0]]

\* VectorResult.UnmarshalJSON: the score is the first of score, dist and
\* distance that is present, else 0
DecodeVectorResult(j) ==
    LET d == DecodeStruct(j, VectorResultSchema)
        a == d.value
    IN [ok |-> d.ok,
        value |-> IF ~d.ok THEN NoValue
                  ELSE [ID |-> a.id, Vector |-> a.vector, Attributes |-> a.attributes,
                        Score |-> CASE a.score.t = "number" -> a.score.n
                                    [] a.dist.t = "number" -> a.dist.n
                                    [] a.distance.t = "number" -> a.distance.n
                                    [] OTHER -> 0]]

\* json.Unmarshal(data, &s) for a slice s of VectorResult: null leaves s nil
DecodeVectorResultList(j) ==
    CASE j.t = "null" -> [ok |-> TRUE, value |-> NilSlice]
      [] j.t = "array" ->
            LET ds == [i \in 1..Len(j.elems) |-> DecodeVectorResult(j.elems[i])]
            IN IF \A i \in 1..Len(ds) : ds[i].ok
               THEN [ok |-> TRUE, value |-> Slice([i \in 1..Len(ds) |-> ds[i].value])]
               ELSE [ok |-> FALSE, value |-> NilSlice]
      [] OTHER -> [ok |-> FALSE, value |-> NilSlice]

\* json.Unmarshal(data, &s) for a slice s of strings
DecodeStringList(j) ==
    CASE j.t = "null" -> [ok |-> TRUE, value |-> NilSlice]
      [] j.t = "array" ->
            IF \A i \in 1..Len(j.elems) : TypeMatches(j.elems[i], "string")
            THEN [ok |-> TRUE, value |-> Slice(j.elems)]
            ELSE [ok |-> FALSE, value |-> NilSlice]
      [] OTHER -> [ok |-> FALSE, value |-> NilSlice]

\* the member k of a wrapper object holding results; absent is nil
DecodeResultsMember(j, k) ==
    IF HasField(j, k) THEN DecodeVectorResultList(j.fields[k])
    ELSE [ok |-> TRUE, value |-> NilSlice]

\* the member k of a wrapper object holding names; absent is nil
DecodeNamesMember(j, k) ==
    IF HasField(j, k) THEN DecodeStringList(j.fields[k])
    ELSE [ok |-> TRUE, value |-> NilSlice]

\* a decoder that knows the results wrapper only
decodeVectorResultsResultsOnly(data) ==
    LET direct == DecodeVectorResultList(data)
        results == DecodeResultsMember(data, "results")
    IN IF direct.ok THEN [value |-> direct.value, err |-> NilErr]
       ELSE IF data.t # "object" \/ ~results.ok
            THEN [value |-> NoValue, err |-> WrapForeign("decode query response")]
       ELSE IF ~results.value.nil THEN [value |-> results.value, err |-> NilErr]
       ELSE [value |-> NoValue, err |-> WrapForeign("decode query response: missing results")]

decodeVectorResults(data) ==
    LET direct == DecodeVectorResultList(data)
        results == DecodeResultsMember(data, "results")
        vectors == DecodeResultsMember(data, "vectors")
    IN IF direct.ok THEN [value |-> direct.value, err |-> NilErr]
       ELSE IF data.t # "object" \/ ~results.ok \/ ~vectors.ok
            THEN [value |-> NoValue, err |-> WrapForeign("decode query response")]
       ELSE IF ~results.value.nil THEN [value |-> results.value, err |-> NilErr]
       ELSE IF ~vectors.value.nil THEN [value |-> vectors.value, err |-> NilErr]
       ELSE [value |-> NoValue, err |-> WrapForeign("decode query response: missing results")]

decodeNamespaces(data) ==
    LET direct == DecodeStringList(data)
        namespaces == DecodeNamesMember(data, "namespaces")
        list == DecodeNamesMember(data, "namespace_list")
    IN IF direct.ok THEN [value |-> direct.value, err |-> NilErr]
       ELSE IF data.t # "object" \/ ~namespaces.ok \/ ~list.ok
            THEN [value |-> NoValue, err |-> WrapForeign("decode namespaces response")]
       ELSE IF ~namespaces.value.nil THEN [value |-> namespaces.value, err |-> NilErr]
       ELSE IF ~list.value.nil THEN [value |-> list.value, err |-> NilErr]
       ELSE [value |-> NoValue,
             err |-> WrapForeign("decode namespaces response: missing namespaces")]

\* json.Unmarshal into a response struct, as Health, GetNamespace and
\* Status do
decodeInto(data, schema, what) ==
    LET d == DecodeStruct(data, schema)
    IN IF d.ok THEN [value |-> d.value, err |-> NilErr]
       ELSE [value |-> NoValue, err |-> WrapForeign(what)]

(***************************************************************************)
(* The receiving half of doRequest and of the operations.                  *)
(***************************************************************************)
\* what c.http.Do and io.ReadAll can hand back
TransportError == [kind |-> "transport error", status |-> 0, body |-> JInvalid]
ReadError == [kind |-> "read error", status |-> 0, body |-> JInvalid]
Response(status, body) == [kind |-> "response", status |-> status, body |-> body]
NoOutcome == [kind |-> "none", status |-> 0, body |-> JInvalid]

\* what they hand back once the context of the request is done: the
\* context's error, from the round trip or from the read of the body
CanceledTransport == [kind |-> "transport canceled", status |-> 0, body |-> JInvalid]
CanceledRead == [kind |-> "read canceled", status |-> 0, body |-> JInvalid]

\* a doRequest that takes only the 5xx statuses for errors
doRequestReceiveServerErrorsOnly(outcome) ==
    CASE outcome.kind = "transport error" ->
            [body |-> JInvalid, err |-> WrapForeign("do request")]
      [] outcome.kind = "read error" ->
            [body |-> JInvalid, err |-> WrapForeign("read response")]
      [] outcome.kind = "transport canceled" ->
            [body |-> JInvalid, err |-> WrapSentinel(Canceled, "do request")]
      [] outcome.kind = "read canceled" ->
            [body |-> JInvalid, err |-> WrapSentinel(Canceled, "read response")]
      [] OTHER ->
            IF outcome.status >= 500
            THEN [body |-> JInvalid, err |-> handleError(outcome.status, outcome.body)]
            ELSE [body |-> outcome.body, err |-> NilErr]

\* a doRequest that reports a canceled request as an unavailable service
doRequestReceiveCanceledAsUnavailable(outcome) ==
    CASE outcome.kind = "transport error" ->
            [body |-> JInvalid, err |-> WrapForeign("do request")]
      [] outcome.kind = "read error" ->
            [body |-> JInvalid, err |-> WrapForeign("read response")]
      [] outcome.kind \in {"transport canceled", "read canceled"} ->
            [body |-> JInvalid, err |-> handleError(StatusServiceUnavailable, JInvalid)]
      [] OTHER ->
            IF outcome.status >= StatusBadRequest
            THEN [body |-> JInvalid, err |-> handleError(outcome.status, outcome.body)]
            ELSE [body |-> outcome.body, err |-> NilErr]

\* doRequest from c.http.Do(req) on: the body bytes, or an error
doRequestReceive(outcome) ==
    CASE outcome.kind = "transport error" ->
            [body |-> JInvalid, err |-> WrapForeign("do request")]
      [] outcome.kind = "read error" ->
            [body |-> JInvalid, err |-> WrapForeign("read response")]
      [] outcome.kind = "transport canceled" ->
            [body |-> JInvalid, err |-> WrapSentinel(Canceled, "do request")]
      [] outcome.kind = "read canceled" ->
            [body |-> JInvalid, err |-> WrapSentinel(Canceled, "read response")]
      [] OTHER ->
            IF outcome.status >= StatusBadRequest
            THEN [body |-> JInvalid, err |-> handleError(outcome.status, outcome.body)]
            ELSE [body |-> outcome.body, err |-> NilErr]

\* a doRequest that sends the request once more to a service that
\* answered 503 or did not answer
doRequestAgainWhenUnavailable(request, outcome) ==
    IF outcome.kind = "transport error" \/ outcome.status = StatusServiceUnavailable
    THEN <<request>>
    ELSE <<>>

\* the requests doRequest hands to c.http.Do after the first has come
\* back: it calls Do once and has no loop
doRequestAgain(request, outcome) == <<>>

\* an operation from the return of doRequest on: decoded marks the body
\* bytes handed to a decoder
Finish(op, outcome) ==
    LET r == doRequestReceive(outcome)
        d == CASE op = "Health" ->
                    decodeInto(r.body, HealthResponseSchema, "decode health response")
               [] op = "GetNamespace" ->
                    decodeInto(r.body, NamespaceInfoSchema, "decode namespace response")
               [] op = "Status" ->
                    decodeInto(r.body, IngestStatusSchema, "decode status response")
               [] op = "Query" -> decodeVectorResults(r.body)
               [] op = "ListNamespaces" -> decodeNamespaces(r.body)
               [] OTHER -> [value |-> NoValue, err |-> NilErr]
    IN IF r.err # NilErr THEN [err |-> r.err, value |-> NoValue, decoded |-> <<>>]
       ELSE IF op \in {"Upsert", "Delete", "Compact"}
            THEN [err |-> NilErr, value |-> NoValue, decoded |-> <<>>]
       ELSE [err |-> d.err, value |-> d.value, decoded |-> <<r.body>>]

(***************************************************************************)
(* What the backend and the transport answer.                              *)
(***************************************************************************)
Statuses == {200, 304, 400, 404, 413, 500, 503}

ErrorBody(text) == JObj([error |-> JStr(text)])

NamespaceNotFound == <<"namespace", " ", "not", " ", "found">>

ResultA == JObj([id |-> JStr(<<"a">>), score |-> JNum(1)])

\* the bodies the backend answers with; JInvalid is also the empty body
Bodies ==
    {JInvalid,
     ErrorBody(NamespaceNotFound),
     ErrorBody(<<" ", "bad", " ">>),
     JObj([service |-> JStr(<<"query">>), status |-> JStr(<<"ok">>)]),
     JArr(<<ResultA>>),
     JObj([results |-> JArr(<<ResultA>>), namespace |-> JStr(<<"ns">>)])}

\* the bodies handed to the classifier on its own: also a blank message
\* and a message that is not a string
ClassifierBodies ==
    Bodies \cup {ErrorBody(<<" ">>), ErrorBody(<<>>), JObj([error |-> JNum(5)])}

Outcomes ==
    {TransportError, ReadError}
    \cup {Response(s, b) : s \in Statuses, b \in Bodies}

(***************************************************************************)
(* The state machine: one caller that builds a client and calls its        *)
(* operations one after the other.                                         *)
(***************************************************************************)
CallIds == {1}

HTTPPointers == {CustomHTTP} \cup {OwnHTTP(c) : c \in ClientPair}

ZeroArgs ==
    [docs |-> NilSlice, vector |-> NilSlice, ids |-> NilSlice, opts |-> NilOptions,
     namespace |-> "", service |-> "", statusCode |-> 0, body |-> JInvalid,
     ctx |-> "background", options |-> <<>>, expectedDims |-> 0]

\* the contexts handed to the operations
Contexts == {"nil", "background", "canceled"}

IdleCall ==
    [pc |-> "idle", op |-> "", client |-> 0, args |-> ZeroArgs, sent |-> <<>>,
     outcome |-> NoOutcome, err |-> NilErr, value |-> NoValue, decoded |-> <<>>,
     ctxDone |-> FALSE]

Init ==
    /\ clients = [c \in ClientIds |-> NoClient]
    /\ httpClients = [h \in HTTPPointers |->
                        IF h = CustomHTTP
                        THEN [made |-> TRUE, Timeout |-> InjectedTimeout]
                        ELSE [made |-> FALSE, Timeout |-> 0]]
    /\ calls = [id \in CallIds |-> IdleCall]

\* the operation op of client c is entered with args and a context and
\* runs until it blocks in c.http.Do or returns; doRequest takes a nil
\* context for context.Background(), and the transport puts nothing on
\* the wire for a context that is done already
Begin(id, c, op, args, plan) ==
    /\ calls[id].pc = "idle"
    /\ clients[c].built
    /\ \E given \in Contexts :
        LET ctx == IF given = "nil" THEN "background" ELSE given
        IN calls' = [calls EXCEPT ![id] =
                        [IdleCall EXCEPT
                            !.pc = IF plan.err = NilErr THEN "awaiting" ELSE "done",
                            !.op = op, !.client = c, !.args = [args EXCEPT !.ctx = ctx],
                            !.ctxDone = (ctx = "canceled"),
                            !.sent = IF plan.err = NilErr /\ ctx = "canceled"
                                     THEN <<>> ELSE plan.sent,
                            !.err = plan.err]]
    /\ UNCHANGED <<clients, httpClients>>

Health(id, c) ==
    \E service \in ServiceNames :
        Begin(id, c, "Health", [ZeroArgs EXCEPT !.service = service],
              HealthSend(clients[c].config, service))

Upsert(id, c) ==
    \E docs \in DocumentLists, opts \in UpsertOptionsSet :
        Begin(id, c, "Upsert", [ZeroArgs EXCEPT !.docs = docs, !.opts = opts],
              UpsertSend(clients[c].config, docs, opts))

Query(id, c) ==
    \E vector \in Vectors, opts \in QueryOptionsSet :
        Begin(id, c, "Query", [ZeroArgs EXCEPT !.vector = vector, !.opts = opts],
              QuerySend(clients[c].config, vector, opts))

Delete(id, c) ==
    \E ids \in IDLists, opts \in DeleteOptionsSet :
        Begin(id, c, "Delete", [ZeroArgs EXCEPT !.ids = ids, !.opts = opts],
              DeleteSend(clients[c].config, ids, opts))

GetNamespace(id, c) ==
    \E namespace \in CallNamespaces :
        Begin(id, c, "GetNamespace", [ZeroArgs EXCEPT !.namespace = namespace],
              GetNamespaceSend(clients[c].config, namespace))

ListNamespaces(id, c) ==
    Begin(id, c, "ListNamespaces", ZeroArgs, ListNamespacesSend(clients[c].config))

Status(id, c) == Begin(id, c, "Status", ZeroArgs, StatusSend(clients[c].config))

Compact(id, c) == Begin(id, c, "Compact", ZeroArgs, CompactSend(clients[c].config))

\* the call once c.http.Do has come back with outcome and the operation
\* has run to its return statement
Returning(call, outcome) ==
    LET f == Finish(call.op, outcome)
    IN [call EXCEPT !.pc = "done", !.outcome = outcome, !.err = f.err,
                    !.value = f.value, !.decoded = f.decoded,
                    !.sent = IF @ = <<>> THEN @ ELSE @ \o doRequestAgain(@[1], outcome)]

\* c.http.Do returns and the operation runs to its return statement; a
\* request whose context is done comes back with the context's error,
\* from the round trip or, when it was sent, from the read of the body
Respond(id) ==
    /\ calls[id].pc = "awaiting"
    /\ \E outcome \in IF ~calls[id].ctxDone THEN Outcomes
                       ELSE IF calls[id].sent = <<>> THEN {CanceledTransport}
                       ELSE {CanceledTransport, CanceledRead} :
        calls' = [calls EXCEPT ![id] = Returning(@, outcome)]
    /\ UNCHANGED <<clients, httpClients>>

\* the caller cancels the context of a call that waits for its response
Cancel(id) ==
    /\ calls[id].pc = "awaiting"
    /\ ~calls[id].ctxDone
    /\ calls' = [calls EXCEPT ![id].ctxDone = TRUE]
    /\ UNCHANGED <<clients, httpClients>>

\* the caller takes the result; it is free to call again
Return(id) ==
    /\ calls[id].pc = "done"
    /\ calls' = [calls EXCEPT ![id] = IdleCall]
    /\ UNCHANGED <<clients, httpClients>>

Construct(c) == \E opts \in OptionLists : New(c, opts) /\ UNCHANGED calls

\* every status code of three digits
StatusCodes == 100..599

\* c.handleError(statusCode, body), called on its own as the package's
\* tests do
HandleError(id, c) ==
    \E statusCode \in StatusCodes, body \in ClassifierBodies :
        /\ calls[id].pc = "idle"
        /\ clients[c].built
        /\ calls' = [calls EXCEPT ![id] =
                        [IdleCall EXCEPT !.pc = "done", !.op = "handleError", !.client = c,
                                         !.args = [ZeroArgs EXCEPT !.statusCode = statusCode,
                                                                   !.body = body],
                                         !.err = handleError(statusCode, body)]]
        /\ UNCHANGED <<clients, httpClients>>

Next ==
    \/ \E c \in ClientIds : Construct(c)
    \/ \E id \in CallIds, c \in ClientIds : Health(id, c)
    \/ \E id \in CallIds, c \in ClientIds : Upsert(id, c)
    \/ \E id \in CallIds, c \in ClientIds : Query(id, c)
    \/ \E id \in CallIds, c \in ClientIds : Delete(id, c)
    \/ \E id \in CallIds, c \in ClientIds : GetNamespace(id, c)
    \/ \E id \in CallIds, c \in ClientIds : ListNamespaces(id, c)
    \/ \E id \in CallIds, c \in ClientIds : Status(id, c)
    \/ \E id \in CallIds, c \in ClientIds : Compact(id, c)
    \/ \E id \in CallIds : Respond(id)
    \/ \E id \in CallIds : Cancel(id)
    \/ \E id \in CallIds : Return(id)

Spec == Init /\ [][Next]_vars

(***************************************************************************)
(* The classifier on its own: a client built by New() with no options      *)
(* whose handleError is handed every status code and body.                 *)
(***************************************************************************)
InitClassify ==
    /\ clients = [c \in ClientIds |->
                    [config |-> InitialConfig, http |-> OwnHTTP(c), built |-> TRUE]]
    /\ httpClients = [h \in HTTPPointers |->
                        IF h = CustomHTTP
                        THEN [made |-> TRUE, Timeout |-> InjectedTimeout]
                        ELSE [made |-> TRUE, Timeout |-> defaultTimeout]]
    /\ calls = [id \in CallIds |-> IdleCall]

\* ValidateVector(v, expectedDims), called on its own as the package's
\* tests do, with vectors of up to MaxVecLen + 1 floats and expected
\* dimensions below, at and above their lengths
Validate(id) ==
    \E es \in SeqsUpTo(Floats, MaxVecLen + 1), nil \in BOOLEAN,
       expectedDims \in -1 .. MaxVecLen + 2 :
        LET v == IF nil /\ es = <<>> THEN NilSlice ELSE Slice(es)
        IN /\ calls[id].pc = "idle"
           /\ calls' = [calls EXCEPT ![id] =
                           [IdleCall EXCEPT !.pc = "done", !.op = "ValidateVector",
                                            !.args = [ZeroArgs EXCEPT !.vector = v,
                                                          !.expectedDims = expectedDims],
                                            !.err = ValidateVector(v, expectedDims)]]
           /\ UNCHANGED <<clients, httpClients>>

NextClassify ==
    \/ \E id \in CallIds, c \in ClientIds : HandleError(id, c)
    \/ \E id \in CallIds : Validate(id)
    \/ \E id \in CallIds : Return(id)

SpecClassify == InitClassify /\ [][NextClassify]_vars

(***************************************************************************)
(* The decoders behind Query and ListNamespaces: a client built by New()   *)
(* with no options is answered with every shape of body.                   *)
(***************************************************************************)
Result(id, fs) == JObj([id |-> JStr(<<id>>)] @@ fs)

\* result objects with every combination of the score members, one with a
\* null score, and an element that is no object
ResultElems ==
    {Result("a", [score |-> JNum(1)]),
     Result("b", [dist |-> JNum(2)]),
     Result("c", [distance |-> JNum(3)]),
     Result("d", [score |-> JNum(1), dist |-> JNum(2)]),
     Result("e", [dist |-> JNum(2), distance |-> JNum(3)]),
     Result("f", [score |-> JNum(1), dist |-> JNum(2), distance |-> JNum(3)]),
     Result("g", [score |-> JNull, distance |-> JNum(3)]),
     JObj([id |-> JStr(<<"h">>)]),
     JNum(5)}

ResultLists == SeqsUpTo(ResultElems, MaxResults)

QueryBodies ==
    {JInvalid, JNull, JNum(5), JStr(<<"ok">>),
     JObj([namespace |-> JStr(<<"ns">>)]),
     JObj([results |-> JNull]),
     JObj([results |-> JNum(5)]),
     JObj([results |-> JNull, vectors |-> JNull])}
    \cup {JArr(L) : L \in ResultLists}
    \cup {JObj([results |-> JArr(L)]) : L \in ResultLists}
    \cup {JObj([vectors |-> JArr(L)]) : L \in ResultLists}
    \cup {JObj([namespace |-> JStr(<<"ns">>), results |-> JArr(L)]) : L \in ResultLists}

\* namespaces as names and as info objects
NameElems == {JStr(<<"a">>), JStr(<<"b">>)}
InfoElems ==
    {JObj([namespace |-> JStr(<<"a">>)]),
     JObj([namespace |-> JStr(<<"b">>), approx_count |-> JNum(3), dimensions |-> JNum(2)])}

NamespaceLists == SeqsUpTo(NameElems, MaxResults) \cup SeqsUpTo(InfoElems, MaxResults)

NamespaceBodies ==
    {JInvalid, JNull, JNum(5),
     JObj([namespaces |-> JNull]),
     JObj([namespace |-> JStr(<<"ns">>)])}
    \cup {JArr(L) : L \in NamespaceLists}
    \cup {JObj([namespaces |-> JArr(L)]) : L \in NamespaceLists}
    \cup {JObj([namespace_list |-> JArr(L)]) : L \in NamespaceLists}

\* a Query of the vector [1]
QueryOne(id, c) ==
    \E opts \in NamespaceOptions :
        LET vector == Slice(<<Num(1)>>)
        IN Begin(id, c, "Query", [ZeroArgs EXCEPT !.vector = vector, !.opts = opts],
                 QuerySend(clients[c].config, vector, opts))

\* the backend answers a Query or a listing with a success status; a call
\* entered with a canceled context gets the context's error
RespondDecoding(id) ==
    /\ calls[id].pc = "awaiting"
    /\ \E status \in {200, 201},
          body \in IF calls[id].op = "Query" THEN QueryBodies ELSE NamespaceBodies :
        calls' = [calls EXCEPT ![id] =
                    Returning(@, IF calls[id].ctxDone THEN CanceledTransport
                                 ELSE Response(status, body))]
    /\ UNCHANGED <<clients, httpClients>>

NextDecode ==
    \/ \E id \in CallIds, c \in ClientIds : QueryOne(id, c)
    \/ \E id \in CallIds, c \in ClientIds : ListNamespaces(id, c)
    \/ \E id \in CallIds : RespondDecoding(id)
    \/ \E id \in CallIds : Return(id)

SpecDecode == InitClassify /\ [][NextDecode]_vars

(***************************************************************************)
(* Two clients built side by side, from the option lists of the package's  *)
(* construction test and its neighbours; each construction is kept as a    *)
(* finished call, so that its options can be held against the client it    *)
(* made.  The clients then run operations on both services.                *)
(***************************************************************************)
SharedOptionLists ==
    {<<>>,
     <<WithHTTPClient(CustomHTTP)>>,
     <<WithHTTPClient(CustomHTTP), WithTimeout(12)>>,
     <<WithHTTPClient(CustomHTTP), WithTimeout(0)>>,
     <<WithTimeout(12)>>,
     <<WithNamespace("products")>>,
     <<WithDefaultNamespace("products")>>,
     <<WithNamespace("tenant-a"), WithDefaultNamespace("tenant-b")>>,
     <<WithQueryURL("http://tidepool.test"), NilOption, WithQueryURL("http://query.test")>>,
     <<WithIngestURL("http://tidepool.test")>>}

\* client := New(opts...)
NewCall(id, c) ==
    \E opts \in SharedOptionLists :
        /\ calls[id].pc = "idle"
        /\ New(c, opts)
        /\ calls' = [calls EXCEPT ![id] =
                        [IdleCall EXCEPT !.pc = "done", !.op = "New", !.client = c,
                                         !.args = [ZeroArgs EXCEPT !.options = opts]]]

InitShared ==
    /\ clients = [c \in ClientPair |-> NoClient]
    /\ httpClients = [h \in HTTPPointers |->
                        IF h = CustomHTTP
                        THEN [made |-> TRUE, Timeout |-> InjectedTimeout]
                        ELSE [made |-> FALSE, Timeout |-> 0]]
    /\ calls = [id \in CallIds |-> IdleCall]

NextShared ==
    \/ \E id \in CallIds, c \in ClientPair : NewCall(id, c)
    \/ \E id \in CallIds, c \in ClientPair : QueryOne(id, c)
    \/ \E id \in CallIds, c \in ClientPair : Compact(id, c)
    \/ \E id \in CallIds : Respond(id)
    \/ \E id \in CallIds : Cancel(id)
    \/ \E id \in CallIds : Return(id)

SpecShared == InitShared /\ [][NextShared]_vars

(***************************************************************************)
(* Two calls that run at once on one client built by New() with no         *)
(* options: each is a Query with a namespace of its own.                   *)
(***************************************************************************)
CallPair == {1, 2}

InitConcurrent ==
    /\ clients = [c \in ClientIds |->
                    [config |-> InitialConfig, http |-> OwnHTTP(c), built |-> TRUE]]
    /\ httpClients = [h \in HTTPPointers |->
                        IF h = CustomHTTP
                        THEN [made |-> TRUE, Timeout |-> InjectedTimeout]
                        ELSE [made |-> h = OwnHTTP(1), Timeout |-> defaultTimeout]]
    /\ calls = [id \in CallPair |-> IdleCall]

NextConcurrent ==
    \/ \E id \in CallPair, c \in ClientIds : QueryOne(id, c)
    \/ \E id \in CallPair : Respond(id)
    \/ \E id \in CallPair : Cancel(id)
    \/ \E id \in CallPair : Return(id)

SpecConcurrent == InitConcurrent /\ [][NextConcurrent]_vars

(***************************************************************************)
(* Vocabulary of the properties.                                           *)
(***************************************************************************)
Started(k) == calls[k].pc # "idle"
Done(k) == calls[k].pc = "done"
HasSent(k) == calls[k].sent # <<>>
ConfigOf(k) == clients[calls[k].client].config

\* the namespace the caller gave this call
PerCallNamespace(k) ==
    IF calls[k].op = "GetNamespace" THEN calls[k].args.namespace
    ELSE IF calls[k].args.opts.nil THEN "" ELSE calls[k].args.opts.Namespace

\* the last segment of the path of the request this call sent
PathNamespace(k) == calls[k].sent[1].url.path[Len(calls[k].sent[1].url.path)]

VectorOps == {"Upsert", "Query", "Delete"}
NamespaceOps == VectorOps \cup {"GetNamespace"}

\* the error came from a check of the client, not from a response
LocalError(k) == Done(k) /\ calls[k].err # NilErr /\ calls[k].outcome = NoOutcome

(***************************************************************************)
(* C1                                                                      *)
(***************************************************************************)
\* C1: a request of Upsert, Query, Delete or GetNamespace made with an empty
\* per-call namespace (or nil options) on a client whose DefaultNamespace
\* was set to a non-empty d carries d in its path.
C1_DefaultNamespaceInPath ==
    \A k \in CallIds :
        (/\ calls[k].op \in NamespaceOps
         /\ HasSent(k)
         /\ PerCallNamespace(k) = ""
         /\ ConfigOf(k).DefaultNamespace # "")
        => PathNamespace(k) = ConfigOf(k).DefaultNamespace

(***************************************************************************)
(* C2                                                                      *)
(***************************************************************************)
\* C2: with a non-empty per-call namespace n, Upsert, Query and Delete send
\* their request to /v1/vectors/n whatever the configured default is, and
\* never fail for want of a namespace.
C2_PerCallNamespaceWins ==
    \A k \in CallIds :
        (calls[k].op \in VectorOps /\ PerCallNamespace(k) # "")
        => /\ HasSent(k) => calls[k].sent[1].url.path = <<"v1", "vectors", PerCallNamespace(k)>>
           /\ LocalError(k) => calls[k].err.what # "namespace is required"

\* an override that differs from both configured namespaces was sent
C2_Witness ==
    \E k \in CallIds :
        /\ calls[k].op = "Query"
        /\ HasSent(k)
        /\ PerCallNamespace(k) = "tenant_a"
        /\ ConfigOf(k).Namespace = "products"
        /\ PathNamespace(k) = "tenant_a"

InputsValid(k) ==
    LET a == calls[k].args
    IN CASE calls[k].op = "Upsert" -> Len(a.docs.elems) > 0
         [] calls[k].op = "Delete" -> Len(a.ids.elems) > 0
         [] calls[k].op = "Query" ->
                /\ Len(a.vector.elems) > 0
                /\ \A i \in 1..Len(a.vector.elems) : a.vector.elems[i].f = "num"
         [] calls[k].op = "Health" -> a.service \in {"query", "Query", "ingest"}
         [] OTHER -> TRUE

\* C4: a call of Upsert, Query, Delete or Health that ends in a validation
\* error found by the client has sent no request, and a call that has sent
\* a request had valid inputs and a resolved, non-empty namespace.
C4_ValidationBeforeTransport ==
    \A k \in CallIds :
        calls[k].op \in VectorOps \cup {"Health"}
        => /\ (LocalError(k) /\ IsValidationError(calls[k].err)) => ~HasSent(k)
           /\ HasSent(k) =>
                /\ InputsValid(k)
                /\ calls[k].sent[1].url.base # ""
                /\ calls[k].op \in VectorOps => PathNamespace(k) # ""
                /\ Len(calls[k].sent) = 1

\* an Upsert with no documents ended in a local validation error
C4_Witness ==
    \E k \in CallIds :
        /\ calls[k].op = "Upsert"
        /\ Len(calls[k].args.docs.elems) = 0
        /\ LocalError(k)
        /\ IsValidationError(calls[k].err)
        /\ ~HasSent(k)

(***************************************************************************)
(* C5                                                                      *)
(***************************************************************************)
\* the mode matrix forbids the mode of the call with these inputs
ForbiddenByModeMatrix(k) ==
    LET a == calls[k].args
        noVector == Len(a.vector.elems) = 0
        noText == a.opts.nil \/ a.opts.Text = ""
        mode == IF a.opts.nil THEN "" ELSE a.opts.Mode
    IN \/ mode = "vector" /\ noVector
       \/ mode = "text" /\ noText
       \/ mode = "hybrid" /\ (noVector \/ noText)

\* C5: a Query whose mode and inputs the mode matrix forbids (vector mode
\* without a vector, text mode without text, hybrid mode without a vector
\* or without text) ends in a Validation error and sends no request.
C5_ModeMatrixRejected ==
    \A k \in CallIds :
        (calls[k].op = "Query" /\ ForbiddenByModeMatrix(k))
        => /\ ~HasSent(k)
           /\ Done(k)
           /\ IsValidationError(calls[k].err)

(***************************************************************************)
(* C6                                                                      *)
(***************************************************************************)
\* C6: a Query in text mode with text and a nil or empty vector, made on a
\* client that can resolve a namespace, is sent to the resolved namespace
\* with a payload that has no "vector" member.
C6_TextQueryOmitsVector ==
    \A k \in CallIds :
        (/\ calls[k].op = "Query"
         /\ ~calls[k].args.opts.nil
         /\ calls[k].args.opts.Mode = "text"
         /\ calls[k].args.opts.Text # ""
         /\ Len(calls[k].args.vector.elems) = 0
         /\ ConfigOf(k).QueryURL # ""
         /\ (PerCallNamespace(k) # "" \/ ConfigOf(k).Namespace # ""))
        => /\ HasSent(k)
           /\ "vector" \notin DOMAIN calls[k].sent[1].body.value
           /\ PathNamespace(k) =
                IF PerCallNamespace(k) # "" THEN PerCallNamespace(k)
                ELSE ConfigOf(k).Namespace

(***************************************************************************)
(* C7                                                                      *)
(***************************************************************************)
\* C7: the error handleError makes of a status code has Validation kind
\* exactly for 400 and 413, NotFound kind exactly for 404,
\* ServiceUnavailable kind exactly for 503, and for every other code is an
\* error of none of the three kinds.
C7_StatusClassification ==
    \A k \in CallIds :
        (calls[k].op = "handleError" /\ Done(k))
        => LET code == calls[k].args.statusCode
               err == calls[k].err
           IN /\ err # NilErr
              /\ IsValidationError(err) <=> code \in {400, 413}
              /\ IsNotFoundError(err) <=> code = 404
              /\ IsServiceUnavailableError(err) <=> code = 503
              /\ code \notin {400, 404, 413, 503} => err.kinds = {}

\* 413 was classified, as a Validation error
C7_Witness ==
    \E k \in CallIds :
        /\ calls[k].op = "handleError"
        /\ Done(k)
        /\ calls[k].args.statusCode = 413
        /\ IsValidationError(calls[k].err)

(***************************************************************************)
(* C8                                                                      *)
(***************************************************************************)
\* C8 as stated: every response whose status is outside 200..299 makes the
\* operation return an error without handing the body to a decoder, and
\* only the bodies of 2xx responses are decoded.
C8_Non2xxIsError ==
    \A k \in CallIds :
        (Done(k) /\ calls[k].outcome.kind = "response")
        => /\ calls[k].outcome.status \notin 200..299 =>
                (calls[k].err # NilErr /\ calls[k].decoded = <<>>)
           /\ calls[k].decoded # <<>> => calls[k].outcome.status \in 200..299

\* C8, amended: every response whose status is 400 or more makes the
\* operation return the classified error of that status, without a value
\* and without handing the body to a decoder; the bodies that are decoded
\* are those of the responses with a status below 400.
C8_ErrorStatusIsError ==
    \A k \in CallIds :
        Done(k)
        => /\ (calls[k].outcome.kind = "response" /\ calls[k].outcome.status >= 400) =>
                /\ calls[k].err # NilErr
                /\ \E t \in AsTidepoolError(calls[k].err) :
                        t.StatusCode = calls[k].outcome.status
                /\ calls[k].value = NoValue
                /\ calls[k].decoded = <<>>
           /\ calls[k].decoded # <<>> =>
                /\ calls[k].outcome.kind = "response"
                /\ calls[k].outcome.status < 400
                /\ calls[k].decoded = <<calls[k].outcome.body>>

\* a 503 whose body is a well-formed result list was not decoded
C8_Witness ==
    \E k \in CallIds :
        /\ calls[k].op = "Query"
        /\ Done(k)
        /\ calls[k].outcome = Response(503, JArr(<<ResultA>>))
        /\ IsServiceUnavailableError(calls[k].err)
        /\ calls[k].decoded = <<>>

(***************************************************************************)
(* C9                                                                      *)
(***************************************************************************)
\* the "error" member of a body, when it is a string that is not blank
HasErrorMessage(body) ==
    /\ body.t = "object"
    /\ "error" \in DOMAIN body.fields
    /\ body.fields["error"].t = "string"
    /\ \E i \in 1..Len(body.fields["error"].s) : body.fields["error"].s[i] # " "

KindOfStatus(code) ==
    CASE code \in {400, 413} -> {ErrValidation}
      [] code = 404 -> {ErrNotFound}
      [] code = 503 -> {ErrServiceUnavailable}
      [] OTHER -> {}

\* the error of the call keeps its kind and one TidepoolError with the
\* status, the raw body and the message
KeepsBothIdentities(k, message) ==
    /\ calls[k].err.kinds = KindOfStatus(calls[k].args.statusCode)
    /\ AsTidepoolError(calls[k].err) =
            {[Message |-> message,
              StatusCode |-> calls[k].args.statusCode,
              Response |-> calls[k].args.body]}

BaseURLOf(k) ==
    CASE calls[k].op \in {"Upsert", "Delete", "Status", "Compact"} -> ConfigOf(k).IngestURL
      [] calls[k].op \in {"Query", "GetNamespace", "ListNamespaces"} -> ConfigOf(k).QueryURL
      [] calls[k].op = "Health" /\ calls[k].args.service = "ingest" -> ConfigOf(k).IngestURL
      [] OTHER -> ConfigOf(k).QueryURL

\* the call was given an input one of the checks of the client rejects
InvalidInput(k) ==
    \/ ~InputsValid(k)
    \/ /\ calls[k].op \in NamespaceOps
       /\ PerCallNamespace(k) = ""
       /\ ConfigOf(k).Namespace = ""
    \/ BaseURLOf(k) = ""

QueryOpts(k) == IF calls[k].args.opts.nil THEN ZeroOptions ELSE calls[k].args.opts

\* the call is a Query that has been entered
QueryCall(k) == calls[k].op = "Query" /\ Started(k)

\* C11: a Query with a negative top_k ends in a Validation error and sends
\* no request; a top_k of 0 or above is not what a Query is rejected for.
C11_NegativeTopKRejected ==
    \A k \in CallIds :
        QueryCall(k)
        => /\ QueryOpts(k).TopK < 0 =>
                /\ Done(k)
                /\ IsValidationError(calls[k].err)
                /\ ~HasSent(k)
           /\ (QueryOpts(k).TopK >= 0 /\ LocalError(k)) =>
                QuerySend(ConfigOf(k), calls[k].args.vector,
                          [calls[k].args.opts EXCEPT !.TopK = 0]).err # NilErr

(***************************************************************************)
(* C12                                                                     *)
(***************************************************************************)
\* a mode, a fusion or an rrf_k outside what the options allow
OutsideEnumerations(k) ==
    \/ QueryOpts(k).Mode \notin QueryModes
    \/ QueryOpts(k).Fusion \notin FusionModes
    \/ QueryOpts(k).RRFK.set /\ QueryOpts(k).RRFK.v <= 0

\* C12: a Query whose mode is not vector, text or hybrid, whose fusion is
\* not blend or rrf, or whose rrf_k is supplied and not positive ends in a
\* Validation error and sends no request.
C12_EnumerationsRejected ==
    \A k \in CallIds :
        (QueryCall(k) /\ OutsideEnumerations(k))
        => /\ Done(k)
           /\ IsValidationError(calls[k].err)
           /\ ~HasSent(k)

(***************************************************************************)
(* C13                                                                     *)
(***************************************************************************)
\* a value in tenths brought into [0, 1]
Clamp01(a) == IF a > 10 THEN 10 ELSE IF a < 0 THEN 0 ELSE a

\* C13: a Query is never rejected for its alpha (the same call without the
\* alpha is rejected too), and the request of a Query with an alpha carries
\* the alpha clamped into [0, 1].
C13_AlphaClamped ==
    \A k \in CallIds :
        (QueryCall(k) /\ QueryOpts(k).Alpha.set)
        => /\ LocalError(k) =>
                QuerySend(ConfigOf(k), calls[k].args.vector,
                          [calls[k].args.opts EXCEPT !.Alpha = NilPointer]).err # NilErr
           /\ HasSent(k) =>
                /\ "alpha" \in DOMAIN calls[k].sent[1].body.value
                /\ calls[k].sent[1].body.value["alpha"] = Clamp01(QueryOpts(k).Alpha.v)

(***************************************************************************)
(* C14                                                                     *)
(***************************************************************************)
\* the call was answered with a status of the 2xx class
Answered2xx(k) ==
    /\ Done(k)
    /\ calls[k].outcome.kind = "response"
    /\ calls[k].outcome.status \in 200..299

\* the body is a list, or an object with a list in its member m and no
\* other member but a namespace
ListShape(body, m) ==
    IF m = "" THEN body.t = "array"
    ELSE /\ body.t = "object"
         /\ m \in DOMAIN body.fields
         /\ DOMAIN body.fields \subseteq {m, "namespace"}
         /\ body.fields[m].t = "array"

\* the list such a body carries
ListOf(body, m) == IF m = "" THEN body.elems ELSE body.fields[m].elems

\* the three shapes of a query response: the bare list, the results member
\* and the vectors member
ResultShapes == {"", "results", "vectors"}

\* every element of the list is a result object
ResultObjects(L) == \A i \in 1..Len(L) : L[i].t = "object"

\* the results of the list, one by one and in its order
ResultsOf(L) == Slice([i \in 1..Len(L) |-> DecodeVectorResult(L[i]).value])

\* C14: a Query answered with a list of result objects gives the caller the
\* results of that list in its order, whichever of the three shapes (bare
\* list, results member, vectors member) carries it; a list holding an
\* element that is no result object is a decode error in all three shapes.
C14_ShapesDecodeAlike ==
    \A k \in CallIds :
        (calls[k].op = "Query" /\ Answered2xx(k))
        => \A m \in ResultShapes :
              ListShape(calls[k].outcome.body, m)
              => LET L == ListOf(calls[k].outcome.body, m)
                 IN IF ResultObjects(L)
                    THEN calls[k].err = NilErr /\ calls[k].value = ResultsOf(L)
                    ELSE calls[k].err # NilErr /\ calls[k].value = NoValue

\* two results that came in a vectors member were returned in their order
C14_Witness ==
    \E k \in CallIds :
        /\ calls[k].op = "Query"
        /\ Answered2xx(k)
        /\ calls[k].outcome.body =
              JObj([vectors |-> JArr(<<Result("b", [dist |-> JNum(2)]),
                                       Result("a", [score |-> JNum(1)])>>)])
        /\ calls[k].err = NilErr
        /\ calls[k].value.elems[1].ID = JStr(<<"b">>)
        /\ calls[k].value.elems[2].ID = JStr(<<"a">>)

(***************************************************************************)
(* C15                                                                     *)
(***************************************************************************)
\* the namespace the result of the call reports, empty when it has none
ReturnedNamespace(k) ==
    IF "Namespace" \in DOMAIN calls[k].value THEN calls[k].value.Namespace ELSE <<>>

\* the response is an object with a namespace member
ServerNamed(body) ==
    body.t = "object" /\ HasField(body, "namespace") /\ body.fields["namespace"].t = "string"

\* C15: a Query that succeeds reports the namespace member of a wrapped
\* response that has one, and otherwise the namespace of the request path.
C15_NamespaceReported ==
    \A k \in CallIds :
        (calls[k].op = "Query" /\ Answered2xx(k) /\ calls[k].err = NilErr)
        => ReturnedNamespace(k) =
              IF ServerNamed(calls[k].outcome.body)
              THEN calls[k].outcome.body.fields["namespace"].s
              ELSE <<PathNamespace(k)>>

(***************************************************************************)
(* C16                                                                     *)
(***************************************************************************)
\* the body has one of the shapes the operation accepts: a list, or an
\* object with a list in one of the named members
AcceptedShape(body, members) ==
    \/ body.t = "array"
    \/ /\ body.t = "object"
       /\ \E m \in members : HasField(body, m) /\ body.fields[m].t = "array"

ListMembers(op) ==
    IF op = "Query" THEN {"results", "vectors"} ELSE {"namespaces", "namespace_list"}

\* C16: a Query or a listing answered with a 2xx status and a body that is
\* malformed or has none of the accepted shapes returns an error that is
\* neither Validation, NotFound nor ServiceUnavailable and carries no
\* TidepoolError; it returns no value.
C16_UnknownShapeIsDecodeError ==
    \A k \in CallIds :
        (/\ calls[k].op \in {"Query", "ListNamespaces"}
         /\ Answered2xx(k)
         /\ ~AcceptedShape(calls[k].outcome.body, ListMembers(calls[k].op)))
        => /\ calls[k].err # NilErr
           /\ ~IsValidationError(calls[k].err)
           /\ ~IsNotFoundError(calls[k].err)
           /\ ~IsServiceUnavailableError(calls[k].err)
           /\ AsTidepoolError(calls[k].err) = {}
           /\ calls[k].value = NoValue

(***************************************************************************)
(* C17                                                                     *)
(***************************************************************************)
\* the member is present in the object with a value
Present(e, m) == HasField(e, m) /\ e.fields[m].t # "null"

\* the score the members of a result object stand for
ScoreOf(e) ==
    CASE Present(e, "score") -> e.fields["score"].n
      [] Present(e, "dist") -> e.fields["dist"].n
      [] Present(e, "distance") -> e.fields["distance"].n
      [] OTHER -> 0

NumberOf(e, m) == IF Present(e, m) THEN e.fields[m].n ELSE 0

\* the NamespaceInfo a name or an info object stands for
NamespaceInfoOf(e) ==
    IF e.t = "string"
    THEN [Namespace |-> e.s, ApproxCount |-> 0, Dimensions |-> 0,
          PendingCompaction |-> NilPointer]
    ELSE [Namespace |-> e.fields["namespace"].s,
          ApproxCount |-> NumberOf(e, "approx_count"),
          Dimensions |-> NumberOf(e, "dimensions"),
          PendingCompaction |-> NilPointer]

\* the shapes of a listing: the bare list of names or of info objects, the
\* namespaces member with info objects and the namespace_list member with
\* names
ListingShape(body, m) ==
    /\ ListShape(body, m)
    /\ LET L == ListOf(body, m)
       IN CASE m = "" -> \/ \A i \in 1..Len(L) : L[i].t = "string"
                         \/ \A i \in 1..Len(L) : L[i].t = "object"
            [] m = "namespaces" -> \A i \in 1..Len(L) : L[i].t = "object"
            [] OTHER -> \A i \in 1..Len(L) : L[i].t = "string"

\* C18: a listing answered with namespaces in one of the four shapes (bare
\* list of names, bare list of info objects, namespaces member, legacy
\* namespace_list member) returns the NamespaceInfo of each namespace in
\* order; a name gives an info with count 0, dimensions 0 and no flag.
C18_ListingShapesDecodeAlike ==
    \A k \in CallIds :
        (calls[k].op = "ListNamespaces" /\ Answered2xx(k))
        => \A m \in {"", "namespaces", "namespace_list"} :
              ListingShape(calls[k].outcome.body, m)
              => LET L == ListOf(calls[k].outcome.body, m)
                 IN /\ calls[k].err = NilErr
                    /\ calls[k].value = Slice([i \in 1..Len(L) |-> NamespaceInfoOf(L[i])])

(***************************************************************************)
(* C19                                                                     *)
(***************************************************************************)
\* errors.Is(err, context.Canceled) and nothing of the HTTP taxonomy
CancellationError(err) ==
    /\ Canceled \in err.kinds
    /\ ~IsValidationError(err)
    /\ ~IsNotFoundError(err)
    /\ ~IsServiceUnavailableError(err)
    /\ AsTidepoolError(err) = {}

\* the call was entered with a context that was canceled before
EnteredCanceled(k) == Started(k) /\ calls[k].args.ctx = "canceled"

\* the call has returned and its context was canceled before it did
EndedCanceled(k) == Done(k) /\ calls[k].ctxDone /\ calls[k].op # "handleError"

\* the request of the call cannot be encoded: a document holds a NaN or an
\* infinite value
Unencodable(k) ==
    /\ calls[k].op = "Upsert"
    /\ \E i \in 1..Len(calls[k].args.docs.elems) :
          \E j \in 1..Len(calls[k].args.docs.elems[i].Vector.elems) :
              calls[k].args.docs.elems[i].Vector.elems[j].f # "num"

\* C19 as claimed: a call entered with a canceled context sends nothing,
\* and every call whose context was canceled before it returned returns a
\* cancellation error.
C19_CanceledCallReturnsCancellation ==
    \A k \in CallIds :
        /\ EnteredCanceled(k) => ~HasSent(k)
        /\ EndedCanceled(k) => CancellationError(calls[k].err)

\* C19: a call entered with a canceled context sends nothing; a call whose
\* context was canceled before it returned returns a cancellation error
\* when its inputs pass the checks of the client and its request can be
\* encoded, and the error of that check, with nothing sent, when not.
C19_CancellationAfterLocalChecks ==
    \A k \in CallIds :
        /\ EnteredCanceled(k) => ~HasSent(k)
        /\ EndedCanceled(k) =>
              IF InvalidInput(k) \/ Unencodable(k)
              THEN LocalError(k) /\ ~HasSent(k) /\ ~CancellationError(calls[k].err)
              ELSE CancellationError(calls[k].err)

\* a request was sent, its context was canceled while it was in flight and
\* the call returned the cancellation
C19_Witness ==
    \E k \in CallIds :
        /\ HasSent(k)
        /\ calls[k].args.ctx = "background"
        /\ EndedCanceled(k)
        /\ CancellationError(calls[k].err)

(***************************************************************************)
(* C20                                                                     *)
(***************************************************************************)
\* C20: no call hands more than one request to the transport, whatever
\* came back for the first: a 503, another error status, a transport
\* error or a body that cannot be decoded.
C20_AtMostOneRequest ==
    \A k \in CallIds :
        /\ Len(calls[k].sent) <= 1
        /\ (Done(k) /\ calls[k].outcome.kind \in {"response", "transport error", "read error"})
           => Len(calls[k].sent) = 1

\* a call answered 503 has returned an error after its one request
C20_Witness ==
    \E k \in CallIds :
        /\ Done(k)
        /\ calls[k].outcome.kind = "response"
        /\ calls[k].outcome.status = StatusServiceUnavailable
        /\ IsServiceUnavailableError(calls[k].err)
        /\ Len(calls[k].sent) = 1

(***************************************************************************)
(* C21                                                                     *)
(***************************************************************************)
\* C21: once a client is built, its configuration (base URLs, namespaces,
\* timeout) and the timeout of the http.Client it sends with stay as they
\* are in every step, whether the step is an operation of the client or the
\* construction of another client.
C21_ConfigurationFixed ==
    [][\A c \in DOMAIN clients :
          clients[c].built
          => /\ clients'[c] = clients[c]
             /\ httpClients'[clients[c].http].Timeout = httpClients[clients[c].http].Timeout]_vars

(***************************************************************************)
(* C22                                                                     *)
(***************************************************************************)
\* the calls j and k run at once with different per-call namespaces
Concurrent(j, k) ==
    /\ j # k
    /\ Started(j) /\ Started(k)
    /\ PerCallNamespace(j) # "" /\ PerCallNamespace(k) # ""
    /\ PerCallNamespace(j) # PerCallNamespace(k)

\* each request of two such calls goes to the path of its own namespace
OwnPath(k) ==
    HasSent(k) => calls[k].sent[1].url.path = <<"v1", "vectors", PerCallNamespace(k)>>

\* C22: of two calls that run at once on one client with different
\* per-call namespaces, each sends its request to the path of its own
\* namespace and each Query that succeeds reports its own namespace,
\* however the steps of the two calls interleave.
C22_ConcurrentCallsIsolated ==
    \A j, k \in DOMAIN calls :
        Concurrent(j, k)
        => /\ OwnPath(k)
           /\ (calls[k].op = "Query" /\ Answered2xx(k) /\ calls[k].err = NilErr)
              => ReturnedNamespace(k) = <<PerCallNamespace(k)>>

(***************************************************************************)
(* C23                                                                     *)
(***************************************************************************)
\* the namespace the client resolves for the call: the per-call one, or
\* the client's configured namespace
ResolvedNamespace(k) ==
    IF PerCallNamespace(k) # "" THEN PerCallNamespace(k) ELSE ConfigOf(k).Namespace

\* C23: every request of Upsert is a POST and every request of Delete a
\* DELETE to the ingest base URL, every request of Query is a POST to the
\* query base URL, each at the path /v1/vectors/{resolved namespace}; when
\* the two base URLs differ, no Upsert or Delete goes to the query URL and
\* no Query to the ingest URL.
C23_VectorRequestsRouted ==
    \A k \in CallIds :
        (calls[k].op \in VectorOps /\ HasSent(k))
        => LET request == calls[k].sent[1]
               cfg == ConfigOf(k)
           IN /\ request.url.path = <<"v1", "vectors", ResolvedNamespace(k)>>
              /\ request.method = IF calls[k].op = "Delete" THEN "DELETE" ELSE "POST"
              /\ request.url.base = IF calls[k].op = "Query" THEN cfg.QueryURL
                                    ELSE cfg.IngestURL
              /\ cfg.QueryURL # cfg.IngestURL
                 => request.url.base # IF calls[k].op = "Query" THEN cfg.IngestURL
                                       ELSE cfg.QueryURL

\* a Query went out to a query base URL that an option had set
C23_Witness ==
    \E k \in CallIds :
        /\ calls[k].op = "Query"
        /\ HasSent(k)
        /\ ConfigOf(k).QueryURL \notin {defaultQueryURL, ConfigOf(k).IngestURL}
        /\ calls[k].sent[1].url.base = ConfigOf(k).QueryURL
        /\ calls[k].sent[1].url.path = <<"v1", "vectors", "tenant_a">>

(***************************************************************************)
(* C24                                                                     *)
(***************************************************************************)
\* C24: a request of Compact is a POST to the ingest base URL at
\* /v1/namespaces/{ns}/compact, where ns is the namespace of the call or,
\* without one, the configured default; the service-wide paths /status and
\* /compact are requested by the whole-service operation Status only.
C24_NamespaceScopedEndpoints ==
    \A k \in CallIds :
        HasSent(k)
        => LET request == calls[k].sent[1]
           IN /\ calls[k].op = "Compact"
                 => /\ request.method = "POST"
                    /\ request.url.base = ConfigOf(k).IngestURL
                    /\ request.url.path =
                          <<"v1", "namespaces", ResolvedNamespace(k), "compact">>
              /\ request.url.path \in {<<"status">>, <<"compact">>}
                 => calls[k].op = "Status"

(***************************************************************************)
(* C25                                                                     *)
(***************************************************************************)
\* C25: every request a call hands to the transport has the header
\* Accept: application/json; it has Content-Type: application/json when it
\* has a body and no Content-Type when it has none, and it has a body
\* exactly when the operation passes a payload (Upsert, Query, Delete).
C25_Headers ==
    \A k \in CallIds :
        \A i \in 1..Len(calls[k].sent) :
            LET request == calls[k].sent[i]
            IN /\ request.Accept = ApplicationJSON
               /\ request.ContentType = IF request.body.present THEN ApplicationJSON ELSE ""
               /\ request.body.present <=> calls[k].op \in VectorOps

\* a POST without a body went out with Accept and without Content-Type
C25_Witness ==
    \E k \in CallIds :
        /\ calls[k].op = "Compact"
        /\ HasSent(k)
        /\ calls[k].sent[1].method = "POST"
        /\ ~calls[k].sent[1].body.present
        /\ calls[k].sent[1].Accept = ApplicationJSON
        /\ calls[k].sent[1].ContentType = ""

(***************************************************************************)
(* C26                                                                     *)
(***************************************************************************)
\* the clients c and d were built alike but for the option that supplied
\* their namespace n: WithNamespace(n) for c, WithDefaultNamespace(n) for d
AliasPair(c, d) ==
    /\ clients[c].built /\ clients[d].built
    /\ clients[c].config.DefaultNamespace # ""
    /\ clients[c].config.Namespace = clients[c].config.DefaultNamespace
    /\ clients[d].config = [clients[c].config EXCEPT !.Namespace = defaultNamespace]

\* C26: two clients that differ only in which of WithNamespace and
\* WithDefaultNamespace supplied the namespace n resolve every per-call
\* namespace, the empty one included, to the same namespace.
C26_AliasResolvesAlike ==
    \A c, d \in DOMAIN clients :
        AliasPair(c, d)
        => \A namespace \in CallNamespaces :
              namespaceOrDefault(clients[c].config, namespace)
                  = namespaceOrDefault(clients[d].config, namespace)

(***************************************************************************)
(* C27                                                                     *)
(***************************************************************************)
\* the member m of the payload of the request is there with the value v
Carries(request, m, v) ==
    m \in DOMAIN request.body.value /\ request.body.value[m] = v

\* C27: the request of a Query with Mode unset, a non-empty vector and a
\* non-empty text has mode = "hybrid" in its payload, next to the top_k,
\* distance_metric, fusion and rrf_k the options supplied and an explicit
\* include_vectors = false.
C27_HybridInferred ==
    \A k \in CallIds :
        (/\ QueryCall(k)
         /\ HasSent(k)
         /\ QueryOpts(k).Mode = ""
         /\ QueryOpts(k).Text # ""
         /\ len(calls[k].args.vector) > 0
         /\ QueryOpts(k).Fusion \in FusionModes \cup {""})
        => LET request == calls[k].sent[1]
               o == QueryOpts(k)
           IN /\ Carries(request, "mode", QueryModeHybrid)
              /\ o.TopK > 0 => Carries(request, "top_k", o.TopK)
              /\ o.DistanceMetric # "" => Carries(request, "distance_metric", o.DistanceMetric)
              /\ o.Fusion # "" => Carries(request, "fusion", o.Fusion)
              /\ o.RRFK.set => Carries(request, "rrf_k", o.RRFK.v)
              /\ ~o.IncludeVectors => Carries(request, "include_vectors", FALSE)

(***************************************************************************)
(* C28                                                                     *)
(***************************************************************************)
\* every element of the vector is a finite number
AllFinite(v) == \A i \in 1..len(v) : v.elems[i].f = "num"

\* C28: ValidateVector(v, dims) returns nil exactly when v is not empty,
\* every element of v is finite, and dims is not positive or is the length
\* of v; every error it returns is a validation error and of no other
\* kind.
C28_ValidateVector ==
    \A k \in CallIds :
        (calls[k].op = "ValidateVector" /\ Done(k))
        => LET v == calls[k].args.vector
               dims == calls[k].args.expectedDims
           IN /\ calls[k].err = NilErr
                 <=> (len(v) > 0 /\ AllFinite(v) /\ (dims <= 0 \/ len(v) = dims))
              /\ calls[k].err # NilErr
                 => /\ IsValidationError(calls[k].err)
                    /\ ~IsNotFoundError(calls[k].err)
                    /\ ~IsServiceUnavailableError(calls[k].err)

\* a vector of two floats was accepted for two expected dimensions
C28_Witness ==
    \E k \in CallIds :
        /\ calls[k].op = "ValidateVector"
        /\ Done(k)
        /\ len(calls[k].args.vector) = 2
        /\ calls[k].args.expectedDims = 2
        /\ calls[k].err = NilErr

(***************************************************************************)
(* C29                                                                     *)
(***************************************************************************)
\* the documented default of every field of the configuration
DocumentedDefaults ==
    [QueryURL |-> defaultQueryURL,
     IngestURL |-> defaultIngestURL,
     Timeout |-> defaultTimeout,
     DefaultNamespace |-> defaultNamespace,
     Namespace |-> defaultNamespace,
     HTTPClient |-> NilHTTP]

\* the fields an option sets, and the value it sets them to
FieldsOf(o) ==
    CASE o.opt = "WithQueryURL" -> {"QueryURL"}
      [] o.opt = "WithIngestURL" -> {"IngestURL"}
      [] o.opt = "WithTimeout" -> {"Timeout"}
      [] o.opt = "WithNamespace" -> {"Namespace", "DefaultNamespace"}
      [] o.opt = "WithDefaultNamespace" -> {"DefaultNamespace"}
      [] o.opt = "WithHTTPClient" -> {"HTTPClient"}
      [] OTHER -> {}

ValueOf(o) ==
    CASE o.opt \in {"WithQueryURL", "WithIngestURL"} -> o.url
      [] o.opt = "WithTimeout" -> o.d
      [] o.opt \in {"WithNamespace", "WithDefaultNamespace"} -> o.ns
      [] OTHER -> o.client

\* the positions of the options of opts that set the field
Setters(opts, field) == {i \in 1..Len(opts) : field \in FieldsOf(opts[i])}

\* the configuration has, in the given fields, the documented default where
\* no option set the field and the value of the last option that set it
\* otherwise
DefaultsAndOverrides(cfg, opts, fields) ==
    \A field \in fields :
        cfg[field] = IF Setters(opts, field) = {} THEN DocumentedDefaults[field]
                     ELSE ValueOf(opts[CHOOSE i \in Setters(opts, field) :
                                           \A j \in Setters(opts, field) : j <= i])

\* C29: the client New(opts...) returns has a non-nil HTTP client and a
\* configuration in which every field no option set has its default
\* (http://localhost:8080, http://localhost:8081, DefaultNamespace
\* "default") and every other field the value of the last option that set
\* it.
C29_DefaultsAndOverrides ==
    \A k \in CallIds :
        (calls[k].op = "New" /\ Done(k))
        => /\ clients[calls[k].client].http # NilHTTP
           /\ httpClients[clients[calls[k].client].http].made
           /\ DefaultsAndOverrides(ConfigOf(k), calls[k].args.options,
                                   DOMAIN DocumentedDefaults)

(***************************************************************************)
(* C30                                                                     *)
(***************************************************************************)
\* the kind predicates that hold for the error
KindsOf(err) ==
    {p \in {"validation", "not found", "unavailable"} :
        CASE p = "validation" -> IsValidationError(err)
          [] p = "not found" -> IsNotFoundError(err)
          [] OTHER -> IsServiceUnavailableError(err)}

\* C30: of IsValidationError, IsNotFoundError and IsServiceUnavailableError
\* at most one holds for the error of any call, whether it comes from a
\* local check, the transport, the decoding or a status code.
C30_AtMostOneKind ==
    \A k \in CallIds : Cardinality(KindsOf(calls[k].err)) <= 1

\* a call answered 413 returned an error of the validation kind alone
C30_Witness ==
    \E k \in CallIds :
        /\ Done(k)
        /\ calls[k].outcome.kind = "response"
        /\ calls[k].outcome.status = StatusRequestEntityTooLarge
        /\ KindsOf(calls[k].err) = {"validation"}

====
